---------------------------- MODULE Spec2Model ----------------------------
(***************************************************************************)
(* A model of extract_features.py: reading the input file, the alignment   *)
(* tracker of main, convert_examples_to_features with _truncate_seq_pair,  *)
(* the feature check of main, and the gathering of the encoder's results   *)
(* into the output file.  The run modelled is the default one,             *)
(* FLAGS.do_tokens_only = True.                                            *)
(*                                                                         *)
(* A string is a sequence of one-character strings.  The alphabet is       *)
(* "A" (a letter with a lower case), CTL (a character the tokenizer        *)
(* deletes, so that a word made of it has no sub-tokens), SP (the space),  *)
(* TAB (any other character that str.split() and str.strip() treat as      *)
(* whitespace) and BAR (the three characters "|||", kept as one symbol).   *)
(***************************************************************************)
EXTENDS Integers, Sequences, FiniteSets, TLC

\* ------------------------------------------------------------- bounds
MaxTextLen == 3
MaxSideLen == 2
MaxSeqLen == 5
MaxExamples == 2
MaxTokens == 3
PieceLen == 1
NumLayers == 2
EmbedDim == 2

VARIABLES
  input_file,       \* the lines of FLAGS.input_file, without their line ends
  max_seq_length,   \* FLAGS.max_seq_length
  do_lower_case,    \* FLAGS.do_lower_case
  tok_ws_split,     \* the tokenizer splits on TAB (TRUE) or deletes it (FALSE)
  pc,               \* where main is
  error,            \* the exception that ended the run, "" when none
  unique_id,        \* read_examples' counter
  examples,         \* read_examples' list
  ex_index,         \* the index of the running loop of main
  unique_id_to_token_info,
  features,         \* convert_examples_to_features' list
  pending,          \* the features whose result the estimator has yet to yield
  fout,             \* the datasets of the output file, by name
  created,          \* the names given to fout.create_dataset, in call order
  tokens_a,         \* _truncate_seq_pair's and the slice's first list
  tokens_b,         \* _truncate_seq_pair's second list
  max_length,       \* _truncate_seq_pair's max_length
  trunc_pc,         \* where the truncation run on its own is
  trunc_in          \* the two lists that truncation was given

cfg_vars == <<input_file, max_seq_length, do_lower_case, tok_ws_split>>
run_vars == <<pc, error, unique_id, examples, ex_index, unique_id_to_token_info,
              features, pending, fout, created>>
trunc_vars == <<tokens_a, tokens_b, max_length, trunc_pc, trunc_in>>
vars == <<cfg_vars, run_vars, trunc_vars>>

\* ------------------------------------------------------------ strings
SP == " "
TAB == "\t"
CTL == "^"
BAR == "|"
None == <<"None">>
CLS == <<"[", "C", "L", "S", "]">>
SEP == <<"[", "S", "E", "P", "]">>

Min(a, b) == IF a < b THEN a ELSE b

RECURSIVE Concat(_)
Concat(ss) == IF ss = <<>> THEN <<>> ELSE Head(ss) \o Concat(Tail(ss))

\* Python's whitespace, for str.strip() and str.split()
IsSpace(c) == c \in {SP, TAB}

RECURSIVE LStrip(_)
LStrip(s) == IF s # <<>> /\ IsSpace(Head(s)) THEN LStrip(Tail(s)) ELSE s

RECURSIVE RStrip(_)
RStrip(s) ==
  IF s # <<>> /\ IsSpace(s[Len(s)]) THEN RStrip(SubSeq(s, 1, Len(s) - 1)) ELSE s

\* str.strip()
str_strip(s) == RStrip(LStrip(s))

RECURSIVE SplitOn(_, _, _)
SplitOn(s, cur, seps) ==
  IF s = <<>> THEN <<cur>>
  ELSE IF Head(s) \in seps THEN <<cur>> \o SplitOn(Tail(s), <<>>, seps)
  ELSE SplitOn(Tail(s), Append(cur, Head(s)), seps)

\* str.split(" "): the pieces between single spaces, the empty ones kept
str_split_sp(s) == SplitOn(s, <<>>, {SP})

\* str.split(): the maximal runs of non-whitespace characters
str_split(s) == SelectSeq(SplitOn(s, <<>>, {SP, TAB}), LAMBDA w : w # <<>>)

\* ---------------------------------------------------------- tokenizer
Lower(c) == IF c = "A" THEN "a" ELSE c

\* the text cleaning of the tokenizer: CTL is deleted, and so is TAB by a
\* tokenizer that does not take it for whitespace
CleanText(text) ==
  SelectSeq(text, LAMBDA c : c # CTL /\ (tok_ws_split \/ c # TAB))

CaseFold(w) == [i \in 1..Len(w) |-> IF do_lower_case THEN Lower(w[i]) ELSE w[i]]

RECURSIVE WordPieces(_, _)
WordPieces(w, first) ==
  IF w = <<>> THEN <<>>
  ELSE LET n == Min(PieceLen, Len(w))
           p == SubSeq(w, 1, n)
       IN  <<IF first THEN p ELSE <<"#", "#">> \o p>>
             \o WordPieces(SubSeq(w, n + 1, Len(w)), FALSE)

\* tokenizer.tokenize(text): clean, split on whitespace, fold the case, and
\* split each word into its word pieces
tokenize(text) ==
  LET words == str_split(CleanText(text))
  IN  Concat([i \in 1..Len(words) |-> WordPieces(CaseFold(words[i]), TRUE)])

CharCode(c) ==
  CASE c = "A" -> 1 [] c = "a" -> 2 [] c = BAR -> 3 [] c = "#" -> 4
    [] c = "[" -> 5 [] c = "]" -> 6 [] c = "C" -> 7 [] c = "L" -> 8
    [] c = "S" -> 9 [] c = "E" -> 10 [] c = "P" -> 11 [] OTHER -> 12

RECURSIVE VocabId(_)
VocabId(tok) ==
  IF tok = <<>> THEN 0 ELSE CharCode(tok[Len(tok)]) + 13 * VocabId(SubSeq(tok, 1, Len(tok) - 1))

\* tokenizer.convert_tokens_to_ids(tokens): the vocabulary's ids, all above
\* the 0 of the padding
convert_tokens_to_ids(tokens) == [i \in 1..Len(tokens) |-> VocabId(tokens[i])]


\* ------------------------------------------------------ read_examples
Max(S) == CHOOSE x \in S : \A y \in S : y <= x

\* where " ||| " starts in the line
SeparatorAt(line) ==
  {i \in 1..(Len(line) - 2) : line[i] = SP /\ line[i + 1] = BAR /\ line[i + 2] = SP}

\* line.strip() and re.match(r"^(.*) \|\|\| (.*)$", line): the first group is
\* greedy, so the line is cut at its last " ||| "
ParseLine(line) ==
  LET l == str_strip(line)
      m == SeparatorAt(l)
  IN  IF m = {} THEN [text_a |-> l, text_b |-> None]
      ELSE [text_a |-> SubSeq(l, 1, Max(m) - 1),
            text_b |-> SubSeq(l, Max(m) + 3, Len(l))]

InputExample(uid, text_a, text_b) ==
  [unique_id |-> uid, text_a |-> text_a, text_b |-> text_b]

\* ------------------------------------------- the alignment tracker of main
Range(s) == {s[i] : i \in 1..Len(s)}

\* the loop over a sentence's words: t holds bert_tokens, original_to_bert and
\* tokens_to_remove
RECURSIVE TrackWords(_, _)
TrackWords(words, t) ==
  IF words = <<>> THEN t
  ELSE LET orig_token == Head(words)
           bt == tokenize(orig_token)
       IN  TrackWords(Tail(words),
             IF Len(bt) = 0
             THEN [t EXCEPT !.tokens_to_remove = Append(@, orig_token)]
             ELSE [t EXCEPT !.original_to_bert = Append(@, Len(t.bert_tokens)),
                            !.bert_tokens = @ \o bt])

\* the words left as they were split
KeepMarked(original_tokens, tokens_to_remove) == original_tokens

\* ot = [token for token in original_tokens if token not in tm]
RemoveMarked(original_tokens, tokens_to_remove) ==
  IF Len(tokens_to_remove) > 0
  THEN SelectSeq(original_tokens, LAMBDA token : token \notin Range(tokens_to_remove))
  ELSE original_tokens

\* one sentence of an example, its tokens appended to bert_tokens
TrackSentence(text, bert_tokens) ==
  LET original_tokens == str_split(str_strip(text))
      t == TrackWords(original_tokens,
             [bert_tokens |-> bert_tokens, original_to_bert |-> <<>>,
              tokens_to_remove |-> <<>>])
  IN  [original_tokens |-> RemoveMarked(original_tokens, t.tokens_to_remove),
       original_to_bert |-> t.original_to_bert,
       bert_tokens |-> Append(t.bert_tokens, SEP)]

\* the body of the loop over the examples: the entry of
\* unique_id_to_token_info, or the assertion that failed
TrackExample(example) ==
  LET s1 == TrackSentence(example.text_a, <<CLS>>)
      info1 == [original_tokens |-> s1.original_tokens,
                original_to_bert |-> Range(s1.original_to_bert),
                bert_tokens |-> s1.bert_tokens]
      s2 == TrackSentence(example.text_b, s1.bert_tokens)
      info2 == [original_tokens |-> s1.original_tokens,
                original_to_bert |-> Range(s1.original_to_bert),
                original_tokens2 |-> s2.original_tokens,
                original_to_bert2 |-> Range(s2.original_to_bert),
                bert_tokens |-> s2.bert_tokens]
  IN  IF Len(s1.original_to_bert) # Len(s1.original_tokens)
      THEN [error |-> "AssertionError@403"]
      ELSE IF example.text_b = None THEN [error |-> "", info |-> info1]
      ELSE IF Len(s2.original_to_bert) # Len(s2.original_tokens)
      THEN [error |-> "AssertionError@427"]
      ELSE [error |-> "", info |-> info2]

\* ------------------------------------------------- _truncate_seq_pair
NoTokens == <<None>>
Truthy(x) == x # NoTokens /\ x # <<>>
Pop(s) == SubSeq(s, 1, Len(s) - 1)

\* a tie broken by popping tokens_a
TruncateStepTieA(a, b) ==
  IF Len(a) >= Len(b) /\ a # <<>>
  THEN [tokens_a |-> Pop(a), tokens_b |-> b, error |-> ""]
  ELSE IF b = <<>> THEN [tokens_a |-> a, tokens_b |-> b, error |-> "IndexError@320"]
  ELSE [tokens_a |-> a, tokens_b |-> Pop(b), error |-> ""]

\* one turn of the loop of _truncate_seq_pair that does not break
TruncateStep(a, b) ==
  IF Len(a) > Len(b) THEN [tokens_a |-> Pop(a), tokens_b |-> b, error |-> ""]
  ELSE IF b = <<>> THEN [tokens_a |-> a, tokens_b |-> b, error |-> "IndexError@320"]
  ELSE [tokens_a |-> a, tokens_b |-> Pop(b), error |-> ""]

RECURSIVE truncate_seq_pair(_, _, _)
truncate_seq_pair(a, b, max) ==
  IF Len(a) + Len(b) <= max THEN [tokens_a |-> a, tokens_b |-> b, error |-> ""]
  ELSE LET t == TruncateStep(a, b)
       IN  IF t.error # "" THEN t
           ELSE truncate_seq_pair(t.tokens_a, t.tokens_b, max)

\* s[0:stop] of Python: a negative stop counts from the end
PySlice(s, stop) ==
  SubSeq(s, 1, IF stop < 0 THEN (IF Len(s) + stop < 0 THEN 0 ELSE Len(s) + stop)
               ELSE Min(stop, Len(s)))

\* if len(tokens_a) > seq_length - 2: tokens_a = tokens_a[0:(seq_length - 2)]
TruncateSingle(a, seq_length) ==
  IF Len(a) > seq_length - 2 THEN PySlice(a, seq_length - 2) ELSE a

\* --------------------------------------- convert_examples_to_features
Zeros(n) == [i \in 1..n |-> 0]
Ones(n) == [i \in 1..n |-> 1]

\* tokens_a: the text split at single spaces, each piece tokenized
TokensA(example) ==
  LET tokenized_text_a == str_split_sp(example.text_a)
  IN  Concat([i \in 1..Len(tokenized_text_a) |-> tokenize(tokenized_text_a[i])])

\* tokens_b: None, or a non-empty text_b tokenized as a whole
TokensB(example) ==
  IF example.text_b # None /\ example.text_b # <<>>
  THEN tokenize(example.text_b) ELSE NoTokens

\* the two lists after the truncation, or the exception it raised
Truncated(a, b, seq_length) ==
  IF Truthy(b) THEN truncate_seq_pair(a, b, seq_length - 3)
  ELSE [tokens_a |-> TruncateSingle(a, seq_length), tokens_b |-> b, error |-> ""]

\* [CLS] tokens_a [SEP], and tokens_b [SEP] when tokens_b is not empty
BuildTokens(a, b) ==
  <<CLS>> \o a \o <<SEP>> \o (IF Truthy(b) THEN b \o <<SEP>> ELSE <<>>)

BuildTypeIds(a, b) ==
  <<0>> \o Zeros(Len(a)) \o <<0>> \o (IF Truthy(b) THEN Ones(Len(b)) \o <<1>> ELSE <<>>)

\* while len(input_ids) < seq_length: one 0 more on each of the three lists
PadCount(input_ids, seq_length) ==
  IF Len(input_ids) < seq_length THEN seq_length - Len(input_ids) ELSE 0

InputFeatures(uid, tokens, input_ids, input_mask, input_type_ids) ==
  [unique_id |-> uid, tokens |-> tokens, input_ids |-> input_ids,
   input_mask |-> input_mask, input_type_ids |-> input_type_ids]

\* the assertions written with >= for ==
LengthsAtLeast(input_ids, input_mask, input_type_ids, seq_length) ==
  /\ Len(input_ids) >= seq_length
  /\ Len(input_mask) >= seq_length
  /\ Len(input_type_ids) >= seq_length

\* the three assertions on the padded lists
LengthsOk(input_ids, input_mask, input_type_ids, seq_length) ==
  /\ Len(input_ids) = seq_length
  /\ Len(input_mask) = seq_length
  /\ Len(input_type_ids) = seq_length

\* the body of the loop over the examples: the feature appended, or the
\* exception raised
ConvertExample(example, seq_length) ==
  LET t == Truncated(TokensA(example), TokensB(example), seq_length)
      tokens == BuildTokens(t.tokens_a, t.tokens_b)
      ids == convert_tokens_to_ids(tokens)
      n == PadCount(ids, seq_length)
      input_ids == ids \o Zeros(n)
      input_mask == Ones(Len(ids)) \o Zeros(n)
      input_type_ids == BuildTypeIds(t.tokens_a, t.tokens_b) \o Zeros(n)
  IN  IF t.error # "" THEN [error |-> t.error]
      ELSE IF ~LengthsOk(input_ids, input_mask, input_type_ids, seq_length)
      THEN [error |-> "AssertionError@283"]
      ELSE [error |-> "",
            feature |-> InputFeatures(example.unique_id, tokens, input_ids,
                                      input_mask, input_type_ids)]

\* ------------------------------------------ the feature check of main
RECURSIVE Sorted(_)
Sorted(S) ==
  IF S = {} THEN <<>>
  ELSE LET m == CHOOSE x \in S : \A y \in S : x <= y
       IN  <<m>> \o Sorted(S \ {m})

\* tok[:len(bt)]
Prefix(tok, n) == SubSeq(tok, 1, Min(n, Len(tok)))

\* [tok[:len(bt)] for bt, tok in zip(bert_orig_tokens, orig_tokens)]
Prefixes(bert_orig_tokens, orig_tokens) ==
  [i \in 1..Min(Len(bert_orig_tokens), Len(orig_tokens)) |->
     Prefix(orig_tokens[i], Len(bert_orig_tokens[i]))]

\* the comparison of the two token sequences left out when their lengths
\* differ, as they do after a truncation
CheckUntruncated(feature, unique_info) ==
  LET ids == Sorted(unique_info.original_to_bert)
      inside == SelectSeq(ids, LAMBDA x : x < Len(feature.tokens))
      bert_orig_tokens == [i \in 1..Len(inside) |-> feature.tokens[inside[i] + 1]]
      orig_tokens == unique_info.original_tokens
  IN  IF "original_tokens2" \in DOMAIN unique_info THEN ""
      ELSE IF Len(unique_info.bert_tokens) # Len(feature.tokens) THEN ""
      ELSE IF unique_info.bert_tokens # feature.tokens THEN "AssertionError@443"
      ELSE IF Len(bert_orig_tokens) # Len(orig_tokens) THEN "AssertionError@446"
      ELSE IF Prefixes(bert_orig_tokens, orig_tokens) # bert_orig_tokens
      THEN "AssertionError@448"
      ELSE ""

\* the body of the loop over the features: "" when the feature passes or is
\* a pair's, else the assertion that failed
CheckFeature(feature, unique_info) ==
  LET ids == Sorted(unique_info.original_to_bert)
      bert_orig_tokens == [i \in 1..Len(ids) |-> feature.tokens[ids[i] + 1]]
      orig_tokens == unique_info.original_tokens
  IN  IF "original_tokens2" \in DOMAIN unique_info THEN ""
      ELSE IF unique_info.bert_tokens # feature.tokens THEN "AssertionError@443"
      ELSE IF \E i \in 1..Len(ids) : ids[i] >= Len(feature.tokens)
      THEN "IndexError@444"
      ELSE IF Len(bert_orig_tokens) # Len(orig_tokens) THEN "AssertionError@446"
      ELSE IF Prefixes(bert_orig_tokens, orig_tokens) # bert_orig_tokens
      THEN "AssertionError@448"
      ELSE ""

\* ------------------------------------- the encoder's results, gathered
\* a layer's vector at a position of an example: the encoder is a black box,
\* its numbers are written as the place they stand for
LayerVector(uid, layer_num, pos) == [d \in 1..EmbedDim |-> <<uid, layer_num, pos, d>>]

\* result["layer_output_%d" % layer_num], of shape (seq_length, embed_dim)
LayerOutput(uid, layer_num) ==
  [p \in 1..max_seq_length |-> LayerVector(uid, layer_num, p - 1)]

\* layer_output[ids_to_select] raises for an index past the last row
IndexInRange(ids_to_select, layer_output) ==
  \A i \in 1..Len(ids_to_select) : ids_to_select[i] < Len(layer_output)

\* the first n_tokens rows of each layer taken, not the rows at the indices
FirstRows(uid, ids_to_select) ==
  [shape |-> <<NumLayers, Len(ids_to_select), EmbedDim>>,
   data |-> [l \in 1..NumLayers |->
               [i \in 1..Len(ids_to_select) |-> LayerOutput(uid, l - 1)[i]]]]

\* features_to_write for one sentence: np.empty((NUM_BERT_LAYERS, n_tokens,
\* embed_dim)) filled layer by layer
FeaturesToWrite(uid, ids_to_select) ==
  [shape |-> <<NumLayers, Len(ids_to_select), EmbedDim>>,
   data |-> [l \in 1..NumLayers |->
               [i \in 1..Len(ids_to_select) |->
                  LayerOutput(uid, l - 1)[ids_to_select[i] + 1]]]]

\* one turn of the loop over all_ids.  np.array of an empty list is an array
\* of floats, which this numpy takes as an index (empty_ok) or refuses.
GatherSentence(uid, ids_to_select, words, empty_ok) ==
  IF ids_to_select = <<>> /\ ~empty_ok THEN [error |-> "IndexError@541"]
  ELSE IF ~IndexInRange(ids_to_select, LayerOutput(uid, 0))
  THEN [error |-> "IndexError@541"]
  ELSE IF Len(words) # Len(ids_to_select) THEN [error |-> "ValueError@547"]
  ELSE [error |-> "", features_to_write |-> FeaturesToWrite(uid, ids_to_select)]

\* the names of an example's datasets: str(unique_id), or str(2 * unique_id)
\* and str(2 * unique_id + 1); a name is written as the number it prints
DatasetNames(uid, n) == IF n = 1 THEN <<uid>> ELSE <<2 * uid, 2 * uid + 1>>

\* fout.create_dataset for each name in turn; it raises for a name the file
\* already holds.  f holds the file, the names asked for and the exception.
RECURSIVE CreateDatasets(_, _, _)
CreateDatasets(names, tensors, f) ==
  IF names = <<>> THEN f
  ELSE IF Head(names) \in DOMAIN f.fout
  THEN [f EXCEPT !.created = Append(@, Head(names)), !.error = "ValueError@555"]
  ELSE CreateDatasets(Tail(names), Tail(tensors),
         [f EXCEPT !.created = Append(@, Head(names)),
                   !.fout = (Head(names) :> Head(tensors)) @@ @])

\* the body of the loop over the estimator's results, on the file f
WriteResult(uid, empty_ok, f) ==
  LET unique_info == unique_id_to_token_info[uid]
      g1 == GatherSentence(uid, Sorted(unique_info.original_to_bert),
                           unique_info.original_tokens, empty_ok)
      g2 == GatherSentence(uid, Sorted(unique_info.original_to_bert2),
                           unique_info.original_tokens2, empty_ok)
  IN  IF g1.error # "" THEN [f EXCEPT !.error = g1.error]
      ELSE IF "original_to_bert2" \notin DOMAIN unique_info
      THEN CreateDatasets(DatasetNames(uid, 1), <<g1.features_to_write>>, f)
      ELSE IF g2.error # "" THEN [f EXCEPT !.error = g2.error]
      ELSE CreateDatasets(DatasetNames(uid, 2),
                          <<g1.features_to_write, g2.features_to_write>>, f)

\* the body of the loop over the estimator's results, on the file of the run
HandleResult(uid, empty_ok) ==
  WriteResult(uid, empty_ok, [fout |-> fout, created |-> created, error |-> ""])

\* the loop over results that come in the order of the features from the
\* n-th on, up to the first that raises
RECURSIVE InSubmissionOrder(_, _, _)
InSubmissionOrder(n, empty_ok, f) ==
  IF n > Len(features) \/ f.error # "" THEN f
  ELSE InSubmissionOrder(n + 1, empty_ok,
                         WriteResult(features[n].unique_id, empty_ok, f))

\* ------------------------------------------------------------ the run
Fail(e) == pc' = "failed" /\ error' = e

\* read_examples: one line read
ReadLine ==
  /\ pc = "read"
  /\ unique_id < Len(input_file)
  /\ LET m == ParseLine(input_file[unique_id + 1])
     IN  examples' = Append(examples, InputExample(unique_id, m.text_a, m.text_b))
  /\ unique_id' = unique_id + 1
  /\ UNCHANGED <<cfg_vars, trunc_vars, pc, error, ex_index,
                 unique_id_to_token_info, features, pending, fout, created>>

\* read_examples: the end of the file; with no example every later loop is
\* empty and the run ends
ReadEnd ==
  /\ pc = "read"
  /\ unique_id = Len(input_file)
  /\ pc' = IF examples = <<>> THEN "done" ELSE "track"
  /\ UNCHANGED <<cfg_vars, trunc_vars, error, unique_id, examples, ex_index,
                 unique_id_to_token_info, features, pending, fout, created>>

Last == ex_index + 1 = Len(examples)

\* main: the alignment of one example
Track ==
  /\ pc = "track"
  /\ LET example == examples[ex_index + 1]
         r == TrackExample(example)
     IN  IF r.error # ""
         THEN /\ Fail(r.error)
              /\ UNCHANGED <<ex_index, unique_id_to_token_info>>
         ELSE /\ unique_id_to_token_info' =
                   (example.unique_id :> r.info) @@ unique_id_to_token_info
              /\ ex_index' = IF Last THEN 0 ELSE ex_index + 1
              /\ pc' = IF Last THEN "convert" ELSE "track"
              /\ UNCHANGED error
  /\ UNCHANGED <<cfg_vars, trunc_vars, unique_id, examples, features, pending,
                 fout, created>>

\* convert_examples_to_features: one example
Convert ==
  /\ pc = "convert"
  /\ LET r == ConvertExample(examples[ex_index + 1], max_seq_length)
     IN  IF r.error # ""
         THEN /\ Fail(r.error)
              /\ UNCHANGED <<ex_index, features>>
         ELSE /\ features' = Append(features, r.feature)
              /\ ex_index' = IF Last THEN 0 ELSE ex_index + 1
              /\ pc' = IF Last THEN "check" ELSE "convert"
              /\ UNCHANGED error
  /\ UNCHANGED <<cfg_vars, trunc_vars, unique_id, examples,
                 unique_id_to_token_info, pending, fout, created>>

\* main: the check of one feature against its alignment
Check ==
  /\ pc = "check"
  /\ LET feature == features[ex_index + 1]
         e == CheckFeature(feature, unique_id_to_token_info[feature.unique_id])
     IN  IF e # ""
         THEN /\ Fail(e)
              /\ UNCHANGED <<ex_index, pending>>
         ELSE /\ ex_index' = IF Last THEN 0 ELSE ex_index + 1
              /\ pc' = IF Last THEN "predict" ELSE "check"
              /\ pending' = IF Last THEN {features[i].unique_id : i \in 1..Len(features)}
                            ELSE pending
              /\ UNCHANGED error
  /\ UNCHANGED <<cfg_vars, trunc_vars, unique_id, examples,
                 unique_id_to_token_info, features, fout, created>>

\* main: one result of estimator.predict gathered and written
Gather ==
  /\ pc = "predict"
  /\ \E uid \in pending, empty_ok \in BOOLEAN :
       LET f == HandleResult(uid, empty_ok)
       IN  /\ fout' = f.fout
           /\ created' = f.created
           /\ error' = f.error
           /\ pending' = pending \ {uid}
           /\ pc' = IF f.error # "" THEN "failed"
                    ELSE IF pending' = {} THEN "done" ELSE "predict"
  /\ UNCHANGED <<cfg_vars, trunc_vars, unique_id, examples, ex_index,
                 unique_id_to_token_info, features>>

Next == ReadLine \/ ReadEnd \/ Track \/ Convert \/ Check \/ Gather

\* ------------------------------------------------------------ inputs
Chars == {"A", CTL, SP, TAB}
SideChars == {"A", CTL, SP}
SeqsUpTo(n, S) == UNION {[1..k -> S] : k \in 0..n}
Separator == <<SP, BAR, SP>>

\* a line with one sentence, and a line with two
SingleLines == SeqsUpTo(MaxTextLen, Chars)
PairLines ==
  {a \o Separator \o b : a \in SeqsUpTo(MaxSideLen, {"A", CTL}),
                         b \in SeqsUpTo(MaxTextLen, SideChars)}
\* lines with a word of several sub-tokens before another word
LongLines ==
  {<<"A", "A", SP, "A">>, <<"A", "A", SP, CTL, SP, "A">>,
   <<"A", "A", SP, "A">> \o Separator \o <<"A", "A", SP, "A">>}
Lines == SingleLines \cup PairLines \cup LongLines

\* the lines of the runs over several examples
RunLines ==
  {<<"A">>, <<CTL>>, <<"A", SP, "A">>}
    \cup {a \o Separator \o b : a \in {<<"A">>, <<CTL>>}, b \in {<<"A">>, <<CTL>>}}

InitRun ==
  /\ pc = "read" /\ error = "" /\ unique_id = 0 /\ examples = <<>>
  /\ ex_index = 0 /\ unique_id_to_token_info = <<>> /\ features = <<>>
  /\ pending = {} /\ fout = <<>> /\ created = <<>>

NoTruncation ==
  /\ tokens_a = <<>> /\ tokens_b = <<>> /\ max_length = 0
  /\ trunc_pc = "idle" /\ trunc_in = <<>>

InitFlags ==
  /\ max_seq_length \in 0..MaxSeqLen
  /\ do_lower_case \in BOOLEAN
  /\ tok_ws_split \in BOOLEAN

\* a run over a file of up to MaxExamples lines
Init ==
  /\ input_file \in SeqsUpTo(MaxExamples, RunLines)
  /\ InitFlags /\ InitRun /\ NoTruncation

Spec == Init /\ [][Next]_vars

\* a run over a file of one line
InitOne ==
  /\ input_file \in {<<line>> : line \in Lines}
  /\ InitFlags /\ InitRun /\ NoTruncation

SpecOne == InitOne /\ [][Next]_vars

\* ------------------------------------ the truncation, one turn at a time
\* lines 226 to 234 of convert_examples_to_features and the loop of
\* _truncate_seq_pair, run on two token lists of any lengths
Digits == <<"1", "2", "3", "4", "5", "6", "7", "8", "9">>
TokenList(tag, n) == [i \in 1..n |-> <<tag, Digits[i]>>]

\* if tokens_b: the call of _truncate_seq_pair(tokens_a, tokens_b, seq_length - 3)
TruncCall ==
  /\ trunc_pc = "begin"
  /\ Truthy(tokens_b)
  /\ max_length' = max_seq_length - 3
  /\ trunc_pc' = "loop"
  /\ UNCHANGED <<cfg_vars, run_vars, tokens_a, tokens_b, trunc_in>>

\* else: the slice of tokens_a
TruncSlice ==
  /\ trunc_pc = "begin"
  /\ ~Truthy(tokens_b)
  /\ tokens_a' = TruncateSingle(tokens_a, max_seq_length)
  /\ trunc_pc' = "done"
  /\ UNCHANGED <<cfg_vars, run_vars, tokens_b, max_length, trunc_in>>

\* if total_length <= max_length: break
TruncBreak ==
  /\ trunc_pc = "loop"
  /\ Len(tokens_a) + Len(tokens_b) <= max_length
  /\ trunc_pc' = "done"
  /\ UNCHANGED <<cfg_vars, run_vars, tokens_a, tokens_b, max_length, trunc_in>>

\* tokens_a.pop() or tokens_b.pop(), which raises on an empty list
TruncPop ==
  /\ trunc_pc = "loop"
  /\ Len(tokens_a) + Len(tokens_b) > max_length
  /\ LET t == TruncateStep(tokens_a, tokens_b)
     IN  /\ tokens_a' = t.tokens_a
         /\ tokens_b' = t.tokens_b
         /\ trunc_pc' = IF t.error # "" THEN "raised" ELSE "loop"
  /\ UNCHANGED <<cfg_vars, run_vars, max_length, trunc_in>>

NextTrunc == TruncCall \/ TruncSlice \/ TruncBreak \/ TruncPop

InitTrunc ==
  /\ input_file = <<>> /\ do_lower_case = FALSE /\ tok_ws_split = TRUE
  /\ max_seq_length \in 0..MaxSeqLen
  /\ pc = "idle" /\ error = "" /\ unique_id = 0 /\ examples = <<>>
  /\ ex_index = 0 /\ unique_id_to_token_info = <<>> /\ features = <<>>
  /\ pending = {} /\ fout = <<>> /\ created = <<>>
  /\ tokens_a \in {TokenList("a", n) : n \in 0..MaxTokens}
  /\ tokens_b \in {NoTokens} \cup {TokenList("b", n) : n \in 0..MaxTokens}
  /\ max_length = 0
  /\ trunc_pc = "begin"
  /\ trunc_in = [tokens_a |-> tokens_a, tokens_b |-> tokens_b]

SpecTrunc == InitTrunc /\ [][NextTrunc]_vars

\* ------------------------------------------------------------ claims
ExampleOf(uid) == examples[uid + 1]
IsPair(example) == example.text_b # None

\* the words of a text, and those of them with at least one sub-token
Words(text) == str_split(str_strip(text))
Survivors(text) == SelectSeq(Words(text), LAMBDA w : tokenize(w) # <<>>)
SubTokens(words) == Concat([i \in 1..Len(words) |-> tokenize(words[i])])

\* where the i-th of the words starts in a sequence that holds offset tokens
\* before the first of them
StartOf(words, i, offset) == offset + Len(SubTokens(SubSeq(words, 1, i - 1)))
Starts(words, offset) == {StartOf(words, i, offset) : i \in 1..Len(words)}

\* C1: every feature convert_examples_to_features appends has input_ids,
\* input_mask and input_type_ids of exactly max_seq_length entries.
C1_FixedLength ==
  \A i \in 1..Len(features) :
    /\ Len(features[i].input_ids) = max_seq_length
    /\ Len(features[i].input_mask) = max_seq_length
    /\ Len(features[i].input_type_ids) = max_seq_length

\* a feature of two sentences appended with padding after its tokens
C1_Witness ==
  /\ Len(features) = 1
  /\ Len(features[1].tokens) < max_seq_length
  /\ features[1].input_mask[max_seq_length] = 0
  /\ \E k \in 1..max_seq_length : features[1].input_type_ids[k] = 1

\* C2: the segment ids of a feature of an example with a text_b are 0 from
\* [CLS] through the first [SEP], 1 on every position after it through a
\* second [SEP] that ends the tokens, and 0 on the padding.
C2_SegmentIds ==
  \A i \in 1..Len(features) :
    LET f == features[i]
        n == Len(f.tokens)
        seps == {p \in 1..n : f.tokens[p] = SEP}
    IN  IsPair(ExampleOf(f.unique_id)) =>
          \E p \in seps :
            /\ \A q \in seps : p <= q
            /\ p < n /\ f.tokens[n] = SEP
            /\ \A k \in 1..Len(f.input_type_ids) :
                 f.input_type_ids[k] = (IF p < k /\ k <= n THEN 1 ELSE 0)

\* C3: the entry of unique_id_to_token_info holds, for each sentence, the
\* whitespace-split words that have a sub-token, in their order, and one
\* start index for each of them: the number of tokens before the word,
\* counting [CLS], [SEP] and the sub-tokens of the words kept only.  The
\* token sequence holds no token of a word without sub-tokens, and the
\* assertions on the two lengths never fail.
C3_Alignment ==
  /\ error \notin {"AssertionError@403", "AssertionError@427"}
  /\ \A uid \in DOMAIN unique_id_to_token_info :
       LET example == ExampleOf(uid)
           info == unique_id_to_token_info[uid]
           kept == Survivors(example.text_a)
           first == <<CLS>> \o SubTokens(kept) \o <<SEP>>
           kept2 == Survivors(example.text_b)
       IN  /\ info.original_tokens = kept
           /\ info.original_to_bert = Starts(kept, 1)
           /\ Cardinality(info.original_to_bert) = Len(info.original_tokens)
           /\ IF IsPair(example)
              THEN /\ info.original_tokens2 = kept2
                   /\ info.original_to_bert2 = Starts(kept2, Len(first))
                   /\ Cardinality(info.original_to_bert2) = Len(info.original_tokens2)
                   /\ info.bert_tokens = first \o SubTokens(kept2) \o <<SEP>>
              ELSE info.bert_tokens = first

\* a pair tracked whose second sentence has a word without sub-tokens before
\* a word with one, and whose first sentence lost a word as well
C3_Witness ==
  /\ 0 \in DOMAIN unique_id_to_token_info
  /\ IsPair(ExampleOf(0))
  /\ Len(Words(ExampleOf(0).text_a)) > Len(unique_id_to_token_info[0].original_tokens)
  /\ \E i, j \in 1..Len(Words(ExampleOf(0).text_b)) :
       /\ i < j
       /\ tokenize(Words(ExampleOf(0).text_b)[i]) = <<>>
       /\ tokenize(Words(ExampleOf(0).text_b)[j]) # <<>>

\* C4: every dataset written holds, for its sentence, a tensor of shape
\* (NumLayers, number of words kept, EmbedDim) whose row i of layer l is the
\* encoder's vector of layer l at the start index of the i-th word kept; the
\* start indices grow strictly with i.
C4_Gathered ==
  \A uid \in 0..(Len(examples) - 1) :
    LET example == ExampleOf(uid)
        names == DatasetNames(uid, IF IsPair(example) THEN 2 ELSE 1)
        kept1 == Survivors(example.text_a)
    IN  \A s \in 1..Len(names) :
          LET kept == IF s = 1 THEN kept1 ELSE Survivors(example.text_b)
              offset == IF s = 1 THEN 1 ELSE Len(SubTokens(kept1)) + 2
          IN  names[s] \in DOMAIN fout =>
                /\ fout[names[s]].shape = <<NumLayers, Len(kept), EmbedDim>>
                /\ \A l \in 1..NumLayers :
                     /\ Len(fout[names[s]].data[l]) = Len(kept)
                     /\ \A i \in 1..Len(kept) :
                          /\ fout[names[s]].data[l][i] =
                               LayerVector(uid, l - 1, StartOf(kept, i, offset))
                          /\ Len(fout[names[s]].data[l][i]) = EmbedDim
                          /\ \A j \in 1..(i - 1) :
                               StartOf(kept, j, offset) < StartOf(kept, i, offset)

\* a dataset of two rows taken from positions that are not neighbours
C4_Witness ==
  \E name \in DOMAIN fout :
    /\ fout[name].shape[2] = 2
    /\ fout[name].data[1][2][1][3] > fout[name].data[1][1][1][3] + 1

ConvertErrors == {"IndexError@320", "AssertionError@283"}
CheckErrors ==
  {"AssertionError@443", "IndexError@444", "AssertionError@446", "AssertionError@448"}

\* max_seq_length leaves no room for the special tokens of the example
TooShort(example) ==
  \/ IsPair(example) /\ max_seq_length < 3
  \/ ~IsPair(example) /\ max_seq_length < 2

\* C5: an example with a text_b and max_seq_length < 3, or without one and
\* max_seq_length < 2, makes convert_examples_to_features raise: no feature
\* is appended for it and the run does not go on to the check or the encoder.
C5_TooShortFails ==
  \A k \in 1..Len(examples) :
    TooShort(examples[k]) =>
      /\ Len(features) < k
      /\ pc \notin {"check", "predict", "done"}
      /\ created = <<>>

\* ---- C6, on the truncation run one turn at a time
PairGiven == Truthy(trunc_in.tokens_b)
IsPrefix(s, t) == Len(s) <= Len(t) /\ s = SubSeq(t, 1, Len(s))

\* a turn of the loop pops one last token, of tokens_a only when it is the
\* longer list and of tokens_b otherwise, and only while the total is above
\* max_length; the loop ends at the first total within max_length
C6_Turn ==
  trunc_pc = "loop" =>
    /\ (tokens_a' # tokens_a \/ tokens_b' # tokens_b) =>
         /\ Len(tokens_a) + Len(tokens_b) > max_length
         /\ IF Len(tokens_a) > Len(tokens_b)
            THEN tokens_a' = Pop(tokens_a) /\ tokens_b' = tokens_b
            ELSE tokens_b' = Pop(tokens_b) /\ tokens_a' = tokens_a
    /\ (Len(tokens_a) + Len(tokens_b) <= max_length /\ trunc_pc' # trunc_pc) =>
         /\ trunc_pc' = "done"
         /\ tokens_a' = tokens_a /\ tokens_b' = tokens_b
    /\ (Len(tokens_a) + Len(tokens_b) > max_length /\ trunc_pc' # trunc_pc) =>
         trunc_pc' = "raised"

\* with max_length >= 0 the loop ends with prefixes of the two lists whose
\* total length is the smaller of the first total and max_length, the lists
\* untouched when they were within max_length; _truncate_seq_pair as
\* convert_examples_to_features calls it returns the same two lists
C6_PairResult ==
  (PairGiven /\ max_seq_length - 3 >= 0) =>
    /\ trunc_pc # "raised"
    /\ IsPrefix(tokens_a, trunc_in.tokens_a)
    /\ IsPrefix(tokens_b, trunc_in.tokens_b)
    /\ trunc_pc = "done" =>
         LET total == Len(trunc_in.tokens_a) + Len(trunc_in.tokens_b)
         IN  /\ Len(tokens_a) + Len(tokens_b) = Min(total, max_length)
             /\ total <= max_length =>
                  tokens_a = trunc_in.tokens_a /\ tokens_b = trunc_in.tokens_b
             /\ truncate_seq_pair(trunc_in.tokens_a, trunc_in.tokens_b,
                                  max_seq_length - 3)
                  = [tokens_a |-> tokens_a, tokens_b |-> tokens_b, error |-> ""]

\* the slice keeps the first min(len(tokens_a), max_seq_length - 2) tokens
SliceKeeps ==
  LET n == Min(Len(trunc_in.tokens_a), max_seq_length - 2)
  IN  Len(tokens_a) = n /\ tokens_a = SubSeq(trunc_in.tokens_a, 1, n)

C6_SingleResult ==
  (~PairGiven /\ trunc_pc = "done" /\ max_seq_length >= 2) => SliceKeeps

C6_SingleResultAnyLength == (~PairGiven /\ trunc_pc = "done") => SliceKeeps

\* C6 (amended): the turns of the pair truncation, its result for every
\* max_length >= 0, and the single-sentence slice for max_seq_length >= 2.
C6_Truncation == [][C6_Turn]_vars /\ [](C6_PairResult /\ C6_SingleResult)

\* C6 as stated: the same with the slice claimed for every max_seq_length.
C6_TruncationAsStated ==
  [][C6_Turn]_vars /\ [](C6_PairResult /\ C6_SingleResultAnyLength)

\* a pair truncation that ended after shortening both lists
C6_Witness ==
  /\ PairGiven /\ trunc_pc = "done" /\ max_length >= 0
  /\ 0 < Len(tokens_a) /\ Len(tokens_a) < Len(trunc_in.tokens_a)
  /\ 0 < Len(tokens_b) /\ Len(tokens_b) < Len(trunc_in.tokens_b)

\* C7: no two calls of fout.create_dataset in a run give the same name.
C7_OwnKey ==
  \A i, j \in 1..Len(created) : i # j => created[i] # created[j]

\* ---- C8 to C10, on the check of the features
Info(feature) == unique_id_to_token_info[feature.unique_id]
Truncates(example) ==
  ~IsPair(example) /\ Len(TokensA(example)) > max_seq_length - 2

\* the feature was checked and passed
Passed(i) ==
  /\ i <= Len(features)
  /\ \/ pc \in {"predict", "done"}
     \/ pc = "check" /\ i <= ex_index
     \/ pc = "failed" /\ error \in CheckErrors /\ i <= ex_index
     \/ pc = "failed" /\ error \notin CheckErrors \cup ConvertErrors

\* the check of the feature raised e
FailedWith(i, e) == pc = "failed" /\ error = e /\ e \in CheckErrors /\ i = ex_index + 1

\* C8: for a single sentence that is not truncated, the tracker's bert_tokens
\* are the feature's tokens, whatever whitespace stands between the words.
C8_SameTokens ==
  \A i \in 1..Len(features) :
    LET example == ExampleOf(features[i].unique_id)
    IN  (~IsPair(example) /\ ~Truncates(example)) =>
          Info(features[i]).bert_tokens = features[i].tokens

\* the text is its words joined by single spaces
RECURSIVE JoinSp(_)
JoinSp(words) ==
  IF words = <<>> THEN <<>>
  ELSE IF Len(words) = 1 THEN words[1]
  ELSE words[1] \o <<SP>> \o JoinSp(Tail(words))
SingleSpaced(text) == text = JoinSp(Words(text))

LowerCasedStarts(text) ==
  \A w \in Range(Survivors(text)) :
    LET bt == Head(tokenize(w))
    IN  bt = [k \in 1..Len(bt) |-> Lower(Prefix(w, Len(bt))[k])]

\* C10: with a lower-casing tokenizer, a single sentence that is not
\* truncated and whose words each start with their first sub-token, the case
\* set aside, passes the prefix check, upper-case letters or not.
C10_CaseFoldedPrefix ==
  \A i \in 1..Len(features) :
    LET example == ExampleOf(features[i].unique_id)
    IN  (/\ ~IsPair(example) /\ ~Truncates(example) /\ do_lower_case
         /\ \A w \in Range(Survivors(example.text_a)) : Len(Head(tokenize(w))) <= Len(w)
         /\ LowerCasedStarts(example.text_a))
          => ~FailedWith(i, "AssertionError@448")

\* ---- C11 and C12, on the results of the encoder
GatherErrors == {"IndexError@541", "ValueError@547", "ValueError@555"}

\* the loop over the results has ended, with the last result or an exception
GatherEnded ==
  \/ pc = "done" /\ features # <<>>
  \/ pc = "failed" /\ error \in GatherErrors

\* no sentence of the run is without a word kept, so that the index arrays
\* are arrays of integers whatever the numpy
NoEmptyIndex ==
  \A uid \in DOMAIN unique_id_to_token_info :
    LET unique_info == unique_id_to_token_info[uid]
    IN  /\ unique_info.original_to_bert # {}
        /\ "original_to_bert2" \in DOMAIN unique_info
              => unique_info.original_to_bert2 # {}

\* the file after the results have come in the order of submission
SubmissionOrderFile ==
  InSubmissionOrder(1, TRUE, [fout |-> <<>>, created |-> <<>>, error |-> ""]).fout

\* C11: in whatever order the results come, each is gathered with the index
\* sets of its own unique_id, and the file holds at the end of the loop what
\* it holds when the results come in the order of submission.
C11_AnyOrderSameFile ==
  (GatherEnded /\ NoEmptyIndex) => fout = SubmissionOrderFile

\* the feature reached the loop over the results
Gathered(i) ==
  /\ i <= Len(features)
  /\ pc \in {"predict", "done"} \/ (pc = "failed" /\ error \in GatherErrors)

\* the place of the first [SEP] of a token sequence, counted from 0
FirstSep(tokens) ==
  LET seps == {k \in 0..(Len(tokens) - 1) : tokens[k + 1] = SEP}
  IN  IF seps = {} THEN Len(tokens)
      ELSE CHOOSE k \in seps : \A j \in seps : k <= j

\* C12: for a feature of a pair that reaches the loop over the results,
\* truncated or not, every index of original_to_bert and original_to_bert2
\* is below the number of positions with input_mask 1; those of the first
\* sentence stand strictly between [CLS] and the first [SEP] with segment id
\* 0, those of the second before the last [SEP] with segment id 1.
C12_PairIndices ==
  \A i \in 1..Len(features) :
    LET feature == features[i]
        unique_info == Info(feature)
        real == Len(SelectSeq(feature.input_mask, LAMBDA m : m = 1))
    IN  (Gathered(i) /\ "original_to_bert2" \in DOMAIN unique_info) =>
          /\ \A k \in unique_info.original_to_bert :
                /\ k < real /\ real <= max_seq_length
                /\ 0 < k /\ k < FirstSep(feature.tokens)
                /\ feature.input_type_ids[k + 1] = 0
          /\ \A k \in unique_info.original_to_bert2 :
                /\ k < real /\ real <= max_seq_length
                /\ k < Len(feature.tokens) - 1
                /\ feature.input_type_ids[k + 1] = 1

=============================================================================
